---------------------------- MODULE Spec2Model ----------------------------
(***************************************************************************)
(* A model of the coulomb crate: the relative-permittivity models          *)
(* (src/src/permittivity.rs), the Cutoff trait (src/src/cutoff.rs) and the *)
(* real-space Ewald scheme (src/coulomb/src/pairwise/ewald.rs), with the   *)
(* multipole algebra that evaluates a scheme.                              *)
(*                                                                         *)
(* f64 values.  A value is a record [k, n, d]:                             *)
(*   k = "fin"  the rational n/d in lowest terms, d > 0;                   *)
(*   k = "inf"  +infinity (n = 1) or -infinity (n = -1);                   *)
(*   k = "nan"  not-a-number;                                              *)
(*   k = "panic" is not an f64: it is the outcome of a Rust panic, which   *)
(*              every operation passes on.                                 *)
(* Finite arithmetic is exact (the rounding of f64 and the sign of zero    *)
(* are not modelled); division by zero, infinities and NaN follow IEEE     *)
(* 754.  exp, ln and erfc are evaluated on a grid, to three decimals.      *)
(***************************************************************************)
EXTENDS Integers, Sequences, FiniteSets, TLC

\* ------------------------------------------------------------ f64 values

Abs(i) == IF i < 0 THEN -i ELSE i

Sgn(i) == IF i < 0 THEN -1 ELSE IF i > 0 THEN 1 ELSE 0

RECURSIVE GCD(_, _)
GCD(a, b) == IF b = 0 THEN a ELSE GCD(b, a % b)

\* The rational n/d (d # 0) in lowest terms.
Rat(n, d) ==
    LET g == GCD(Abs(n), Abs(d))
    IN  [k |-> "fin", n |-> Sgn(d) * (n \div g), d |-> Abs(d) \div g]

Int2F(i) == [k |-> "fin", n |-> i, d |-> 1]

NaN == [k |-> "nan", n |-> 0, d |-> 1]

Inf(s) == [k |-> "inf", n |-> s, d |-> 1]

Panic == [k |-> "panic", n |-> 0, d |-> 1]

Zero == Int2F(0)

One == Int2F(1)

Two == Int2F(2)

IsNaN(a) == a.k = "nan"

IsFinite(a) == a.k = "fin"

\* A panic in an operand is the outcome; otherwise a NaN operand gives NaN.
Bad(a, b) == a.k \in {"panic", "nan"} \/ b.k \in {"panic", "nan"}

BadOf(a, b) == IF a.k = "panic" \/ b.k = "panic" THEN Panic ELSE NaN

FNeg(a) == IF a.k \in {"panic", "nan"} THEN a ELSE [a EXCEPT !.n = -a.n]

FAdd(a, b) ==
    IF Bad(a, b) THEN BadOf(a, b)
    ELSE IF a.k = "inf" /\ b.k = "inf" THEN (IF a.n = b.n THEN a ELSE NaN)
    ELSE IF a.k = "inf" THEN a
    ELSE IF b.k = "inf" THEN b
    ELSE LET g == GCD(a.d, b.d)
         IN  Rat(a.n * (b.d \div g) + b.n * (a.d \div g), a.d * (b.d \div g))

FSub(a, b) == FAdd(a, FNeg(b))

FMul(a, b) ==
    IF Bad(a, b) THEN BadOf(a, b)
    ELSE IF a.k = "inf" \/ b.k = "inf"
         THEN (IF a.n = 0 \/ b.n = 0 THEN NaN ELSE Inf(Sgn(a.n) * Sgn(b.n)))
    ELSE LET g1 == GCD(Abs(a.n), b.d)
             g2 == GCD(Abs(b.n), a.d)
         IN  Rat((a.n \div g1) * (b.n \div g2), (a.d \div g2) * (b.d \div g1))

FDiv(a, b) ==
    IF Bad(a, b) THEN BadOf(a, b)
    ELSE IF a.k = "inf" /\ b.k = "inf" THEN NaN
    ELSE IF a.k = "inf" THEN Inf(IF b.n < 0 THEN -a.n ELSE a.n)
    ELSE IF b.k = "inf" THEN Zero
    ELSE IF b.n = 0 THEN (IF a.n = 0 THEN NaN ELSE Inf(Sgn(a.n)))
    ELSE FMul(a, Rat(b.d, b.n))

\* a < b on f64: false when either is NaN.
FLt(a, b) ==
    IF Bad(a, b) THEN FALSE
    ELSE IF a.k = "inf" THEN a.n = -1 /\ ~(b.k = "inf" /\ b.n = -1)
    ELSE IF b.k = "inf" THEN b.n = 1
    ELSE a.n * b.d < b.n * a.d

FGt(a, b) == FLt(b, a)

FLe(a, b) == ~Bad(a, b) /\ ~FLt(b, a)

\* f64::powi
RECURSIVE powi(_, _)
powi(a, e) == IF e = 0 THEN One ELSE FMul(a, powi(a, e - 1))

\* The nearest integer to the finite value a times g (halves away from zero).
Node(a, g) ==
    LET num == 2 * Abs(a.n) * g + a.d
    IN  Sgn(a.n) * (num \div (2 * a.d))

Dec3(i) == Rat(i, 1000)

\* exp(k/4) to three decimals, for k = -32 .. 32.
ExpTable ==
    << 0, 0, 1, 1, 1, 1, 2, 2, 2, 3, 4, 5, 7, 9, 11, 14, 18, 24, 30, 39, 50,
        64, 82, 105, 135, 174, 223, 287, 368, 472, 607, 779, 1000, 1284,
        1649, 2117, 2718, 3490, 4482, 5755, 7389, 9488, 12182, 15643, 20086,
        25790, 33115, 42521, 54598, 70105, 90017, 115584, 148413, 190566,
        244692, 314191, 403429, 518013, 665142, 854059, 1096633, 1408105,
        1808042, 2321572, 2980958 >>

\* f64::exp, on the grid of quarters.
exp(a) ==
    IF a.k \in {"panic", "nan"} THEN a
    ELSE IF a.k = "inf" THEN (IF a.n = 1 THEN a ELSE Zero)
    ELSE LET i == Node(a, 4)
         IN  IF i < -32 THEN Zero ELSE Dec3(ExpTable[i + 33])

\* ln(k) to three decimals, for k = 1 .. 9.
LnTable == << 0, 693, 1099, 1386, 1609, 1792, 1946, 2079, 2197 >>

\* f64::ln, on the grid of integers: NaN below zero, -infinity at zero.
ln(a) ==
    IF a.k \in {"panic", "nan"} THEN a
    ELSE IF a.k = "inf" THEN (IF a.n = 1 THEN a ELSE NaN)
    ELSE IF a.n < 0 THEN NaN
    ELSE IF a.n = 0 THEN Inf(-1)
    ELSE LET i == Node(a, 1)
         IN  Dec3(LnTable[IF i < 1 THEN 1 ELSE i])

\* erfc(k/4) to three decimals, for k = 0 .. 16.
ErfcTable == << 1000, 724, 480, 289, 157, 77, 34, 13, 5, 1, 0, 0, 0, 0, 0, 0, 0 >>

\* crate::math::erfc_x: the complementary error function, on the grid of
\* quarters; erfc(-x) = 2 - erfc(x).
erfc_x(a) ==
    IF a.k \in {"panic", "nan"} THEN a
    ELSE IF a.k = "inf" THEN (IF a.n = 1 THEN Zero ELSE Two)
    ELSE LET i == Node(a, 4)
             t == IF Abs(i) > 16 THEN Zero ELSE Dec3(ErfcTable[Abs(i) + 1])
         IN  IF i < 0 THEN FSub(Two, t) ELSE t

\* ------------------------------------------------------- Option<f64>

None == [some |-> FALSE, val |-> Zero]

Some(x) == [some |-> TRUE, val |-> x]

\* Option::map
map(opt, F(_)) == IF opt.some THEN Some(F(opt.val)) ELSE None

\* Option::unwrap for unwrap_or: a panic on None
unwrap(opt, default) == IF opt.some THEN opt.val ELSE Panic

\* Option::unwrap_or
unwrap_or(opt, default) == IF opt.some THEN opt.val ELSE default

\* ------------------------------------------------ permittivity.rs

\* Result<f64>
Ok(x) == [ok |-> TRUE, val |-> x, err |-> ""]

Err(msg) == [ok |-> FALSE, val |-> Zero, err |-> msg]

\* EmpiricalPermittivity::new
EmpiricalPermittivity(coeffs, temperature_interval) ==
    [model |-> "Empirical", coeffs |-> coeffs,
     temperature_interval |-> temperature_interval, permittivity |-> Zero]

\* ConstantPermittivity::new
ConstantPermittivity(permittivity) ==
    [model |-> "Constant", coeffs |-> << Zero, Zero, Zero, Zero, Zero >>,
     temperature_interval |-> << Zero, Zero >>, permittivity |-> permittivity]

\* The test with <= and >= for < and >: the interval's ends are refused
out_of_range_closed(self, temperature) ==
    \/ FLe(temperature, self.temperature_interval[1])
    \/ FLe(self.temperature_interval[2], temperature)

\* The test of EmpiricalPermittivity::permittivity
out_of_range(self, temperature) ==
    \/ FLt(temperature, self.temperature_interval[1])
    \/ FGt(temperature, self.temperature_interval[2])

\* <EmpiricalPermittivity as RelativePermittivity>::permittivity
empirical_permittivity(self, temperature) ==
    IF out_of_range(self, temperature)
    THEN Err("Temperature out of range for permittivity model")
    ELSE Ok(FAdd(FAdd(FAdd(FAdd(self.coeffs[1],
                                FMul(self.coeffs[2], temperature)),
                           FMul(self.coeffs[3], powi(temperature, 2))),
                      FDiv(self.coeffs[4], temperature)),
                 FMul(self.coeffs[5], ln(temperature))))

\* <ConstantPermittivity as RelativePermittivity>::permittivity
constant_permittivity(self, temperature) == Ok(self.permittivity)

\* The result of a call on &mut self: the model after it and what it returned
Outcome(self, ret) == [self |-> self, ret |-> ret]

\* A set_permittivity that answers Ok(()) and stores nothing
set_permittivity_dropped(self, permittivity) == Outcome(self, Ok(Zero))

\* A set_permittivity that every model accepts: it answers Ok(()) and
\* stores the value where the model holds one
set_permittivity_accepted(self, permittivity) ==
    Outcome(IF self.model # "Permittivity"
            THEN [self EXCEPT !.permittivity = permittivity]
            ELSE IF self.variant = "Fixed"
            THEN [self EXCEPT !.d = permittivity]
            ELSE self,
            Ok(Zero))

\* <ConstantPermittivity as RelativePermittivity>::set_permittivity; Ok(())
\* is written Ok(Zero)
constant_set_permittivity(self, permittivity) ==
    Outcome([self EXCEPT !.permittivity = permittivity], Ok(Zero))

\* RelativePermittivity::set_permittivity, the default of the trait
default_set_permittivity(self, permittivity) ==
    Outcome(self, Err("Cannot set permittivity for this model"))

\* RelativePermittivity::set_permittivity, by the model's type: only
\* ConstantPermittivity overrides the default
set_permittivity(self, permittivity) ==
    IF self.model = "Constant" THEN constant_set_permittivity(self, permittivity)
    ELSE default_set_permittivity(self, permittivity)

\* METAL, WATER_25C, VACUUM
METAL == ConstantPermittivity(Inf(1))

WATER_25C == ConstantPermittivity(Rat(784, 10))

VACUUM == ConstantPermittivity(One)

\* WATER, METHANOL, ETHANOL
WATER ==
    EmpiricalPermittivity(<< Rat(-16644988, 10000), Rat(-884533, 1000000),
                             Rat(3635, 10000000), Rat(648391736, 10000),
                             Rat(3083394, 10000) >>,
                          << Int2F(273), Int2F(403) >>)

METHANOL ==
    EmpiricalPermittivity(<< Rat(-17503069, 10000), Rat(-99026, 100000),
                             Rat(4666, 10000000), Rat(513602652, 10000),
                             Rat(3273124, 10000) >>,
                          << Int2F(176), Int2F(318) >>)

ETHANOL ==
    EmpiricalPermittivity(<< Rat(-15222782, 10000), Rat(-100508, 100000),
                             Rat(5211, 10000000), Rat(387339481, 10000),
                             Rat(2931133, 10000) >>,
                          << Int2F(288), Int2F(328) >>)

\* A value of the enum Permittivity: Fixed(f64), Empirical(record), or one
\* of the variants without data
Permittivity(variant, d) ==
    [model |-> "Permittivity", variant |-> variant, d |-> d]

\* From<Permittivity> for Box<dyn RelativePermittivity>
from(model) ==
    CASE model.variant = "Fixed" -> ConstantPermittivity(model.d)
      [] model.variant = "Empirical" -> model.d
      [] model.variant = "Water" -> WATER
      [] model.variant = "Ethanol" -> ETHANOL
      [] model.variant = "Methanol" -> METHANOL
      [] model.variant = "Metal" -> METAL
      [] model.variant = "Vacuum" -> VACUUM
      [] model.variant = "Water25" -> WATER_25C

\* permittivity of a ConstantPermittivity or an EmpiricalPermittivity
struct_permittivity(self, temperature) ==
    IF self.model = "Empirical" THEN empirical_permittivity(self, temperature)
    ELSE constant_permittivity(self, temperature)

\* <Permittivity as RelativePermittivity>::permittivity
enum_permittivity(self, temperature) ==
    struct_permittivity(from(self), temperature)

\* RelativePermittivity::permittivity, by the model's type
permittivity(self, temperature) ==
    IF self.model = "Permittivity" THEN enum_permittivity(self, temperature)
    ELSE struct_permittivity(self, temperature)

\* RelativePermittivity::temperature_is_ok
temperature_is_ok(self, temperature) == permittivity(self, temperature).ok


\* ------------------------------------------------------ pairwise/ewald.rs

Half == Rat(1, 2)

Four == Int2F(4)

\* RealSpaceEwald::SQRT_PI = 1.7724538509055159, as the fraction 16/9
SQRT_PI == Rat(16, 9)

\* RealSpaceEwald::new
new(cutoff, alpha, debye_length) ==
    [scheme |-> "RealSpaceEwald",
     cutoff |-> cutoff,
     alpha  |-> alpha,
     eta    |-> FMul(alpha, cutoff),
     zeta   |-> IF debye_length.some
                THEN Some(FDiv(cutoff, debye_length.val)) ELSE None]

\* RealSpaceEwald::new_without_salt
new_without_salt(cutoff, alpha) == new(cutoff, alpha, None)

\* Plain::without_cutoff: S = 1, no truncation, no self-energy correction
without_cutoff ==
    [scheme |-> "Plain", cutoff |-> Inf(1), alpha |-> Zero, eta |-> Zero,
     zeta |-> None]

\* cutoff() returning the reduced alpha, or alpha itself, for the cutoff
cutoff_eta(self) == self.eta

cutoff_alpha(self) == self.alpha

\* Cutoff::cutoff
cutoff(self) == self.cutoff

\* Cutoff::cutoff_squared
cutoff_squared(self) == powi(cutoff(self), 2)

\* Cutoff::lower_cutoff
lower_cutoff(self) == Zero

\* ShortRangeFunction::kappa
kappa(self) ==
    IF self.zeta.some THEN Some(FDiv(self.zeta.val, self.cutoff)) ELSE None

\* eta * q + zeta / (2 eta) and eta * q - zeta / (2 eta)
arg_plus(self, zeta, q) ==
    FAdd(FMul(self.eta, q), FDiv(zeta, FMul(Two, self.eta)))

arg_minus(self, zeta, q) ==
    FSub(FMul(self.eta, q), FDiv(zeta, FMul(Two, self.eta)))

\* exp_c and erfc_c of short_range_f1 .. f3
exp_c(self, zeta, q) == exp(FNeg(powi(arg_minus(self, zeta, q), 2)))

erfc_c(self, zeta, q) == erfc_x(arg_plus(self, zeta, q))

ewald_f0(self, q) ==
    IF self.zeta.some
    THEN LET zeta == self.zeta.val
         IN  FMul(Half,
                  FAdd(FMul(erfc_x(arg_plus(self, zeta, q)),
                            exp(FMul(FMul(Two, zeta), q))),
                       erfc_x(arg_minus(self, zeta, q))))
    ELSE erfc_x(FMul(self.eta, q))

ewald_f1(self, q) ==
    IF self.zeta.some
    THEN LET zeta == self.zeta.val
         IN  FAdd(FMul(FDiv(FMul(Int2F(-2), self.eta), SQRT_PI),
                       exp_c(self, zeta, q)),
                  FMul(FMul(zeta, erfc_c(self, zeta, q)),
                       exp(FMul(FMul(Two, zeta), q))))
    ELSE FMul(FDiv(FMul(Int2F(-2), self.eta), SQRT_PI),
              exp(FMul(FNeg(powi(self.eta, 2)), powi(q, 2))))

ewald_f2(self, q) ==
    IF self.zeta.some
    THEN LET zeta == self.zeta.val
         IN  FAdd(FMul(FMul(FDiv(FMul(Four, powi(self.eta, 2)), SQRT_PI),
                            FSub(FMul(self.eta, q), FDiv(zeta, self.eta))),
                       exp_c(self, zeta, q)),
                  FMul(FMul(FMul(Two, powi(zeta, 2)), erfc_c(self, zeta, q)),
                       exp(FMul(FMul(Two, zeta), q))))
    ELSE FMul(FMul(FDiv(FMul(Four, powi(self.eta, 2)), SQRT_PI),
                   FMul(self.eta, q)),
              exp(FNeg(powi(FMul(self.eta, q), 2))))

ewald_f3(self, q) ==
    IF self.zeta.some
    THEN LET zeta == self.zeta.val
             bracket ==
                 FSub(FSub(One,
                           FMul(FMul(Two,
                                     FSub(FMul(self.eta, q),
                                          FDiv(zeta, self.eta))),
                                arg_minus(self, zeta, q))),
                      FDiv(powi(zeta, 2), powi(self.eta, 2)))
         IN  FAdd(FMul(FMul(FDiv(FMul(Four, powi(self.eta, 3)), SQRT_PI),
                            bracket),
                       exp_c(self, zeta, q)),
                  FMul(FMul(FMul(Four, powi(zeta, 3)), erfc_c(self, zeta, q)),
                       exp(FMul(FMul(Two, zeta), q))))
    ELSE FMul(FMul(FDiv(FMul(Four, powi(self.eta, 3)), SQRT_PI),
                   FSub(One, FMul(Two, powi(FMul(self.eta, q), 2)))),
              exp(FNeg(powi(FMul(self.eta, q), 2))))

\* ShortRangeFunction::short_range_f0 .. f3, by the scheme's type
short_range_f0(self, q) ==
    IF self.scheme = "Plain" THEN One ELSE ewald_f0(self, q)

short_range_f1(self, q) ==
    IF self.scheme = "Plain" THEN Zero ELSE ewald_f1(self, q)

short_range_f2(self, q) ==
    IF self.scheme = "Plain" THEN Zero ELSE ewald_f2(self, q)

short_range_f3(self, q) ==
    IF self.scheme = "Plain" THEN Zero ELSE ewald_f3(self, q)

\* SelfEnergyPrefactors
SelfEnergyPrefactors(monopole, dipole) ==
    [monopole |-> monopole, dipole |-> dipole]

ewald_self_energy_prefactors(self) ==
    LET z == unwrap_or(self.zeta, Zero)
        e == exp(FDiv(FDiv(FNeg(powi(z, 2)), Four), powi(self.eta, 2)))
        c == erfc_x(FDiv(z, FMul(Two, self.eta)))
        monopole ==
            FMul(FDiv(FNeg(self.eta), SQRT_PI),
                 FSub(e, FMul(FDiv(FMul(SQRT_PI, z), FMul(Two, self.eta)), c)))
        dipole ==
            FMul(FDiv(FMul(FDiv(FNeg(powi(self.eta, 3)), SQRT_PI), Two),
                      Int2F(3)),
                 FAdd(FMul(FDiv(FDiv(FMul(SQRT_PI, powi(z, 3)), Four),
                                powi(self.eta, 3)),
                           c),
                      FMul(FSub(One,
                                FDiv(FDiv(powi(z, 2), Two), powi(self.eta, 2))),
                           e)))
    IN  SelfEnergyPrefactors(Some(monopole), Some(dipole))

\* ShortRangeFunction::self_energy_prefactors, by the scheme's type
self_energy_prefactors(self) ==
    IF self.scheme = "Plain" THEN SelfEnergyPrefactors(None, None)
    ELSE ewald_self_energy_prefactors(self)


\* ------------------------------------------------- the multipole algebra

\* Sum of the squares of a sequence's elements, first to last
RECURSIVE sum_sq(_)
sum_sq(xs) ==
    IF xs = << >> THEN Zero
    ELSE FAdd(sum_sq(SubSeq(xs, 1, Len(xs) - 1)), powi(xs[Len(xs)], 2))

\* Whether the pair at separation r interacts: always for Plain, within
\* the cutoff for a truncating scheme
in_range(self, r) == self.scheme = "Plain" \/ FLe(r, cutoff(self))

\* MultipolePotential: charge / r * S(q), q = r / cutoff; zero beyond the
\* cutoff.  val is the result, qs the reduced distances S was evaluated at.
potential_eval(self, charge, r) ==
    IF in_range(self, r)
    THEN LET q == FDiv(r, cutoff(self))
         IN  [val |-> FMul(FDiv(charge, r), short_range_f0(self, q)),
              qs  |-> {q}]
    ELSE [val |-> Zero, qs |-> {}]

potential(self, charge, r) == potential_eval(self, charge, r).val

\* MultipoleField, along the separation: charge / r^2 * (S(q) - q S'(q))
field_eval(self, charge, r) ==
    IF in_range(self, r)
    THEN LET q == FDiv(r, cutoff(self))
         IN  [val |-> FMul(FDiv(charge, powi(r, 2)),
                           FSub(short_range_f0(self, q),
                                FMul(q, short_range_f1(self, q)))),
              qs  |-> {q}]
    ELSE [val |-> Zero, qs |-> {}]

field(self, charge, r) == field_eval(self, charge, r).val

\* The energy with the first charge used twice
energy_eval_q1q1(self, q1, q2, r) ==
    LET p == potential_eval(self, q1, r)
    IN  [val |-> FMul(q1, p.val), qs |-> p.qs]

\* MultipoleEnergy: q1 * potential(q2, r)
energy_eval(self, q1, q2, r) ==
    LET p == potential_eval(self, q2, r)
    IN  [val |-> FMul(q1, p.val), qs |-> p.qs]

energy(self, q1, q2, r) == energy_eval(self, q1, q2, r).val

\* MultipoleForce: q1 * field(q2, r)
force_eval(self, q1, q2, r) ==
    LET f == field_eval(self, q2, r)
    IN  [val |-> FMul(q1, f.val), qs |-> f.qs]

force(self, q1, q2, r) == force_eval(self, q1, q2, r).val

\* MultipoleEnergy::self_energy
self_energy(self, charges, dipoles) ==
    LET prefactor == self_energy_prefactors(self)
        monopole == IF prefactor.monopole.some
                    THEN FDiv(FMul(prefactor.monopole.val, sum_sq(charges)),
                              cutoff(self))
                    ELSE Zero
        dipole   == IF prefactor.dipole.some
                    THEN FDiv(FMul(prefactor.dipole.val, sum_sq(dipoles)),
                              powi(cutoff(self), 3))
                    ELSE Zero
    IN  FAdd(monopole, dipole)

\* ---------------------------------------------------------------- bounds

MaxCutoff == 2

MaxAlpha == 3

MaxDebye == 2

MaxCharge == 1

MaxDist == 4

MaxTemp == 3

MaxLen == 3

\* Construction parameters: RealSpaceEwald::new takes any f64
Cutoffs == {Int2F(i) : i \in -1 .. MaxCutoff}

Alphas == {Rat(i, 2) : i \in 0 .. MaxAlpha}

DebyeLengths == {None} \cup {Some(Int2F(i)) : i \in 1 .. MaxDebye}

\* Reduced distances q in [0, 1]
ReducedDistances == {Zero, Half, One}

Charges == {Int2F(i) : i \in -1 .. MaxCharge}

\* Separations r > 0
Distances == {Rat(i, 2) : i \in 1 .. MaxDist}

Multipoles == {Int2F(-1), Two}

MultipoleSeqs(n) == UNION {[1 .. m -> Multipoles] : m \in 0 .. n}

\* Temperatures: any f64
Temperatures ==
    {Int2F(i) : i \in -1 .. MaxTemp + 1} \cup {NaN, Inf(1), Inf(-1)}

Coefficients ==
    { << Int2F(2), One, Zero, Zero, Zero >>,
      << Int2F(-1), Zero, One, Int2F(3), Two >> }

\* Empirical models with a valid interval lo <= hi, and constant models
EmpiricalModels ==
    {EmpiricalPermittivity(c, << Int2F(iv[1]), Int2F(iv[2]) >>) :
        c \in Coefficients,
        iv \in {jv \in (0 .. MaxTemp) \X (0 .. MaxTemp) : jv[1] <= jv[2]}}

ConstantModels == {ConstantPermittivity(x) : x \in {One, Two, Inf(1)}}

\* The values of the enum Permittivity: every variant
EnumModels ==
    {Permittivity("Fixed", x) : x \in {One, Two, Inf(1)}}
        \cup {Permittivity("Empirical", d) : d \in EmpiricalModels}
        \cup {Permittivity(v, Zero) :
                 v \in {"Water", "Ethanol", "Methanol", "Metal", "Vacuum",
                        "Water25"}}

\* The values handed to set_permittivity
Permittivities == {One, Two, Int2F(3), Inf(1), NaN}

\* ----------------------------------------------------------------- state

VARIABLES
    args,   \* what the scheme was constructed from
    pot,    \* the scheme record
    perm,   \* the permittivity model
    call,   \* the caller's last call and its result; op = "none" between calls
    hist    \* the permittivity model as constructed and the value of the
            \* most recent set_permittivity of a ConstantPermittivity

vars == << args, pot, perm, call, hist >>

NoCall ==
    [op |-> "none", x |-> Zero, z1 |-> Zero, z2 |-> Zero,
     charges |-> << >>, dipoles |-> << >>, ret |-> Zero, qs |-> {}]

\* The scheme under test with a fixed permittivity model, or the
\* permittivity model under test with a fixed scheme.
EwaldArgs ==
    {[scheme |-> "RealSpaceEwald", cutoff |-> c, alpha |-> a,
      debye_length |-> d] : c \in Cutoffs, a \in Alphas, d \in DebyeLengths}

PlainArgs ==
    [scheme |-> "Plain", cutoff |-> Inf(1), alpha |-> Zero,
     debye_length |-> None]

construct(a) ==
    IF a.scheme = "Plain" THEN without_cutoff
    ELSE IF a.debye_length.some THEN new(a.cutoff, a.alpha, a.debye_length)
    ELSE new_without_salt(a.cutoff, a.alpha)

Init ==
    /\ \/ args \in EwaldArgs \cup {PlainArgs} /\ perm = Permittivity("Vacuum", Zero)
       \/ /\ args = PlainArgs
          /\ perm \in EmpiricalModels \cup ConstantModels \cup EnumModels
    /\ pot = construct(args)
    /\ call = NoCall
    /\ hist = [constructed |-> perm, last_set |-> None]

Idle == call.op = "none"

\* A call without argument that clears the record's zeta on its way
Returns_clearing(op, ret) ==
    /\ Idle
    /\ call' = [NoCall EXCEPT !.op = op, !.ret = ret]
    /\ pot' = [pot EXCEPT !.zeta = None]
    /\ UNCHANGED << args, perm, hist >>

\* A call that takes no argument, one f64, or charges and a separation
Returns(op, ret) ==
    /\ Idle
    /\ call' = [NoCall EXCEPT !.op = op, !.ret = ret]
    /\ UNCHANGED << args, pot, perm, hist >>

Returns1(op, x, ret) ==
    /\ Idle
    /\ call' = [NoCall EXCEPT !.op = op, !.x = x, !.ret = ret]
    /\ UNCHANGED << args, pot, perm, hist >>

call_cutoff == Returns("cutoff", cutoff(pot))

call_cutoff_squared == Returns("cutoff_squared", cutoff_squared(pot))

call_lower_cutoff == Returns("lower_cutoff", lower_cutoff(pot))

call_kappa == Returns("kappa", kappa(pot))

call_short_range_f0 ==
    \E q \in ReducedDistances :
        Returns1("short_range_f0", q, short_range_f0(pot, q))

call_short_range_f1 ==
    \E q \in ReducedDistances :
        Returns1("short_range_f1", q, short_range_f1(pot, q))

call_short_range_f2 ==
    \E q \in ReducedDistances :
        Returns1("short_range_f2", q, short_range_f2(pot, q))

call_short_range_f3 ==
    \E q \in ReducedDistances :
        Returns1("short_range_f3", q, short_range_f3(pot, q))

call_self_energy_prefactors ==
    Returns("self_energy_prefactors", self_energy_prefactors(pot))

call_self_energy ==
    \E charges \in MultipoleSeqs(MaxLen) :
        \E dipoles \in MultipoleSeqs(MaxLen - Len(charges)) :
            /\ Idle
            /\ call' = [NoCall EXCEPT !.op = "self_energy",
                                      !.charges = charges,
                                      !.dipoles = dipoles,
                                      !.ret = self_energy(pot, charges, dipoles)]
            /\ UNCHANGED << args, pot, perm, hist >>

Evaluates(op, z1, z2, r, e) ==
    /\ Idle
    /\ call' = [NoCall EXCEPT !.op = op, !.z1 = z1, !.z2 = z2, !.x = r,
                              !.ret = e.val, !.qs = e.qs]
    /\ UNCHANGED << args, pot, perm, hist >>

call_potential ==
    \E z \in Charges, r \in Distances :
        Evaluates("potential", z, Zero, r, potential_eval(pot, z, r))

call_field ==
    \E z \in Charges, r \in Distances :
        Evaluates("field", z, Zero, r, field_eval(pot, z, r))

call_energy ==
    \E z1 \in Charges, z2 \in Charges, r \in Distances :
        Evaluates("energy", z1, z2, r, energy_eval(pot, z1, z2, r))

call_force ==
    \E z1 \in Charges, z2 \in Charges, r \in Distances :
        Evaluates("force", z1, z2, r, force_eval(pot, z1, z2, r))

call_permittivity ==
    \E t \in Temperatures :
        Returns1("permittivity", t, permittivity(perm, t))

call_temperature_is_ok ==
    \E t \in Temperatures :
        Returns1("temperature_is_ok", t, temperature_is_ok(perm, t))

call_set_permittivity ==
    \E x \in Permittivities :
        LET o == set_permittivity(perm, x)
        IN  /\ Idle
            /\ perm' = o.self
            /\ call' = [NoCall EXCEPT !.op = "set_permittivity", !.x = x,
                                      !.ret = o.ret]
            /\ hist' = [hist EXCEPT !.last_set =
                                        IF perm.model = "Constant" THEN Some(x)
                                        ELSE @]
            /\ UNCHANGED << args, pot >>

\* The caller takes the result and is ready for its next call.
return ==
    /\ ~Idle
    /\ call' = NoCall
    /\ UNCHANGED << args, pot, perm, hist >>

Next ==
    \/ call_cutoff
    \/ call_cutoff_squared
    \/ call_lower_cutoff
    \/ call_kappa
    \/ call_short_range_f0
    \/ call_short_range_f1
    \/ call_short_range_f2
    \/ call_short_range_f3
    \/ call_self_energy_prefactors
    \/ call_self_energy
    \/ call_potential
    \/ call_field
    \/ call_energy
    \/ call_force
    \/ call_permittivity
    \/ call_temperature_is_ok
    \/ call_set_permittivity
    \/ return

Spec == Init /\ [][Next]_vars

\* ------------------------------------------------------------ the claims

IsEwald == pot.scheme = "RealSpaceEwald"

\* a < b and a <= b for values that are finite or infinite, from the
\* fractions themselves
Below(a, b) ==
    IF a.k = "inf" THEN a.n = -1 /\ ~(b.k = "inf" /\ b.n = -1)
    ELSE IF b.k = "inf" THEN b.n = 1
    ELSE a.n * b.d < b.n * a.d

\* C1: an EmpiricalPermittivity with the valid interval [lo, hi] reports an
\* error exactly when T < lo or T > hi, gives a value for every T with
\* lo <= T <= hi, both ends included, and never answers an out-of-range T
\* with a value (so not with the value at the nearest bound);
\* temperature_is_ok says the same.
C1_OutOfRangeIsAnError ==
    (perm.model = "Empirical"
        /\ call.op \in {"permittivity", "temperature_is_ok"}) =>
        LET t   == call.x
            lo  == perm.temperature_interval[1]
            hi  == perm.temperature_interval[2]
            out == ~IsNaN(t) /\ (Below(t, lo) \/ Below(hi, t))
        IN  IF call.op = "temperature_is_ok" THEN call.ret = ~out
            ELSE /\ call.ret.ok = ~out
                 /\ out => call.ret =
                        Err("Temperature out of range for permittivity model")

C1_Witness ==
    /\ perm.model = "Empirical"
    /\ call.op = "permittivity"
    /\ call.x = FAdd(perm.temperature_interval[2], One)
    /\ ~call.ret.ok

\* C2: for the truncating scheme RealSpaceEwald, potential, field, force and
\* energy at a separation r beyond the cutoff the record was built with are
\* exactly 0, and no short-range function is evaluated at a reduced distance
\* q > 1.
C2_ZeroBeyondCutoff ==
    (IsEwald /\ call.op \in {"potential", "field", "force", "energy"}) =>
        /\ FGt(call.x, args.cutoff) => (call.ret = Zero /\ call.qs = {})
        /\ \A q \in call.qs : ~FGt(q, One)

C2_Witness ==
    /\ IsEwald
    /\ call.op = "potential"
    /\ FGt(args.cutoff, Zero)
    /\ FGt(call.x, args.cutoff)
    /\ call.z1 # Zero
    /\ call.ret = Zero

\* Sum of squares, last element first
RECURSIVE SquaresFrom(_, _)
SquaresFrom(xs, i) ==
    IF i > Len(xs) THEN Zero
    ELSE FAdd(FMul(xs[i], xs[i]), SquaresFrom(xs, i + 1))

Permuted(xs, p) == [i \in 1 .. Len(xs) |-> xs[p[i]]]

\* C3: self_energy(charges, dipoles) is monopole_prefactor * sum(q^2) / cutoff
\* + dipole_prefactor * sum(mu^2) / cutoff^3, with the cutoff the record was
\* built with and an absent prefactor giving 0;
\* it is the sum of the charge-only and the dipole-only self-energy and is
\* the same for every order of the elements.
C3_SelfEnergyFormula ==
    call.op = "self_energy" =>
        LET pf == self_energy_prefactors(pot)
            m  == IF pf.monopole.some
                  THEN FDiv(FMul(pf.monopole.val, SquaresFrom(call.charges, 1)),
                            args.cutoff)
                  ELSE Zero
            d  == IF pf.dipole.some
                  THEN FDiv(FMul(pf.dipole.val, SquaresFrom(call.dipoles, 1)),
                            FMul(FMul(args.cutoff, args.cutoff), args.cutoff))
                  ELSE Zero
        IN  /\ call.ret = FAdd(m, d)
            /\ call.ret = FAdd(self_energy(pot, call.charges, << >>),
                               self_energy(pot, << >>, call.dipoles))
            /\ \A p \in Permutations(1 .. Len(call.charges)) :
                 \A r \in Permutations(1 .. Len(call.dipoles)) :
                    self_energy(pot, Permuted(call.charges, p),
                                Permuted(call.dipoles, r)) = call.ret

C3_Witness ==
    /\ IsEwald
    /\ call.op = "self_energy"
    /\ Len(call.charges) = 2
    /\ call.charges[1] # call.charges[2]
    /\ Len(call.dipoles) = 1
    /\ IsFinite(call.ret)
    /\ call.ret # Zero

\* C4: kappa() of a RealSpaceEwald record is present exactly when a Debye
\* length d was given to new, and is then zeta / cutoff with zeta = cutoff / d,
\* which is 1 / d; without a Debye length it is absent.
C4_KappaIsInverseDebye ==
    (IsEwald /\ call.op = "kappa") =>
        /\ call.ret.some = args.debye_length.some
        /\ ~args.debye_length.some => call.ret = None
        /\ args.debye_length.some =>
             /\ call.ret.val =
                    FDiv(FDiv(args.cutoff, args.debye_length.val), args.cutoff)
             /\ call.ret.val = FDiv(One, args.debye_length.val)

\* C5: energy(q1, q2, r) = q1 * potential(q2, r) = energy(q2, q1, r) for
\* every scheme, and for Plain it is also field(q1, r) * q2 * r.
C5_EnergySymmetric ==
    call.op = "energy" =>
        /\ call.ret = FMul(call.z1, potential(pot, call.z2, call.x))
        /\ call.ret = energy(pot, call.z2, call.z1, call.x)
        /\ pot.scheme = "Plain" =>
             call.ret = FMul(FMul(field(pot, call.z1, call.x), call.z2), call.x)

C5_Witness ==
    /\ call.op = "energy"
    /\ pot.scheme = "Plain"
    /\ call.z1 # call.z2
    /\ IsFinite(call.ret)
    /\ call.ret # Zero

\* C7: short_range_f0(0) = 1 exactly for every scheme record, with and
\* without screening, whatever eta and zeta the constructor produced.
C7_UnityAtZero ==
    (call.op = "short_range_f0" /\ call.x = Zero) => call.ret = One

\* C8: every scheme record has cutoff() > lower_cutoff() >= 0, with
\* lower_cutoff() = 0 and cutoff_squared() = cutoff()^2; so every record
\* RealSpaceEwald::new returns has cutoff() > 0.
C8_CutoffPositive ==
    /\ FGt(cutoff(pot), lower_cutoff(pot))
    /\ FLe(Zero, lower_cutoff(pot))
    /\ lower_cutoff(pot) = Zero
    /\ cutoff_squared(pot) = FMul(cutoff(pot), cutoff(pot))
    /\ IsEwald => FGt(cutoff(pot), Zero)

\* C9: self_energy_prefactors() of a RealSpaceEwald record always holds a
\* monopole and a dipole coefficient, and without a Debye length they are
\* those of the same record with zeta = 0: -eta / sqrt(pi) and
\* -2 eta^3 / (3 sqrt(pi)).
C9_PrefactorsAtZeroZeta ==
    (IsEwald /\ call.op = "self_energy_prefactors") =>
        /\ call.ret.monopole.some
        /\ call.ret.dipole.some
        /\ ~args.debye_length.some =>
             /\ call.ret = self_energy_prefactors([pot EXCEPT !.zeta = Some(Zero)])
             /\ call.ret.monopole.val = FDiv(FNeg(pot.eta), SQRT_PI)
             /\ call.ret.dipole.val =
                    FDiv(FMul(Int2F(-2), FMul(FMul(pot.eta, pot.eta), pot.eta)),
                         FMul(Int2F(3), SQRT_PI))

IsValue(v) == v.k \in {"fin", "inf", "nan"}

C11_ConstantSetThenGet ==
    perm.model = "Constant" =>
        LET v == IF hist.last_set.some THEN hist.last_set.val
                 ELSE hist.constructed.permittivity
        IN  /\ \A t \in Temperatures :
                   /\ permittivity(perm, t) = Ok(v)
                   /\ temperature_is_ok(perm, t)
            /\ call.op = "permittivity" => call.ret = Ok(v)
            /\ call.op = "temperature_is_ok" => call.ret = TRUE
            /\ call.op = "set_permittivity" => (call.ret.ok /\ call.x = v)

C11_Witness ==
    /\ perm.model = "Constant"
    /\ hist.last_set.some
    /\ hist.last_set.val # hist.constructed.permittivity
    /\ call.op = "permittivity"
    /\ call.x = Inf(1)
    /\ call.ret = Ok(hist.last_set.val)

\* C12: a RealSpaceEwald record is never mutated after construction: after
\* any calls it is the record new returned, so cutoff, cutoff_squared,
\* lower_cutoff, kappa, short_range_f0..f3, self_energy_prefactors and
\* self_energy return what they return on the freshly constructed record for
\* the same arguments.
C12_NeverMutated ==
    IsEwald =>
        LET fresh == construct(args)
        IN  /\ pot = fresh
            /\ pot.cutoff = args.cutoff
            /\ call.op = "cutoff" => call.ret = cutoff(fresh)
            /\ call.op = "cutoff_squared" => call.ret = cutoff_squared(fresh)
            /\ call.op = "lower_cutoff" => call.ret = lower_cutoff(fresh)
            /\ call.op = "kappa" => call.ret = kappa(fresh)
            /\ call.op = "short_range_f0" =>
                   call.ret = short_range_f0(fresh, call.x)
            /\ call.op = "short_range_f1" =>
                   call.ret = short_range_f1(fresh, call.x)
            /\ call.op = "short_range_f2" =>
                   call.ret = short_range_f2(fresh, call.x)
            /\ call.op = "short_range_f3" =>
                   call.ret = short_range_f3(fresh, call.x)
            /\ call.op = "self_energy_prefactors" =>
                   call.ret = self_energy_prefactors(fresh)
            /\ call.op = "self_energy" =>
                   call.ret = self_energy(fresh, call.charges, call.dipoles)

C12_Witness ==
    /\ IsEwald
    /\ args.debye_length.some
    /\ FGt(args.cutoff, Zero)
    /\ call.op = "kappa"
    /\ call.ret = pot.zeta
    /\ pot = new(args.cutoff, args.alpha, args.debye_length)

\* C13: set_permittivity on a model that does not override it, an
\* EmpiricalPermittivity or any variant of the enum Permittivity, Fixed
\* included, returns an error and leaves the model as constructed, so
\* permittivity(T) has the same outcome for every T before and after; only a
\* ConstantPermittivity accepts the value.
C13_DefaultSetFails ==
    /\ perm.model # "Constant" =>
           /\ perm = hist.constructed
           /\ \A t \in Temperatures :
                  permittivity(perm, t) = permittivity(hist.constructed, t)
    /\ call.op = "set_permittivity" =>
           /\ call.ret.ok <=> perm.model = "Constant"
           /\ perm.model = "Constant" => perm.permittivity = call.x
           /\ perm.model # "Constant" =>
                  call.ret = Err("Cannot set permittivity for this model")

C13_Witness ==
    /\ perm.model = "Permittivity"
    /\ perm.variant = "Fixed"
    /\ call.op = "set_permittivity"
    /\ ~call.ret.ok
    /\ call.x # perm.d
    /\ permittivity(perm, One) = Ok(perm.d)

=============================================================================
